---------------------------- MODULE Spec2Model ----------------------------
(***************************************************************************)
(* The Ao evaluator (kernel/src/eval/evaluator.cpp): the clause tape, the  *)
(* scalar, AVX, derivative and interval kernels, and push/pop pruning.     *)
(*                                                                         *)
(* Floats are modelled as bit patterns of a miniature sign-magnitude       *)
(* 16-bit format: bit 15 is the sign, the low bits hold the magnitude. The *)
(* finite magnitudes are the integers 0..MaxMag (all exactly representable *)
(* in binary32), followed by Inf and NaN, so +0/-0, overflow to infinity   *)
(* and NaN propagation behave as in IEEE-754; a quotient or root that is   *)
(* not an integer is rounded to the nearest representable value.           *)
(***************************************************************************)
EXTENDS Integers, Sequences, FiniteSets, TLC

\* Largest finite magnitude of the miniature float format.
MaxMag == 40

\* ------------------------------------------------------------------------
\* Float bit patterns
\* ------------------------------------------------------------------------

\* The bit pattern of -0.0f: only the sign bit (bit 15 of the 16-bit word) set.
SignMask == 32768

InfMag == MaxMag + 1
NaNMag == MaxMag + 2

Sign(c) == c \div SignMask
Mag(c) == c % SignMask
Mk(s, m) == s * SignMask + m

PZero == Mk(0, 0)
NZero == Mk(1, 0)
PInf == Mk(0, InfMag)
NInf == Mk(1, InfMag)
\* The default NaN an invalid operation produces (x86: sign bit set).
QNaN == Mk(1, NaNMag)

IsNaN(c) == Mag(c) = NaNMag
IsInf(c) == Mag(c) = InfMag
IsZero(c) == Mag(c) = 0

\* Numeric value of a non-NaN float; +-Inf map to +-(MaxMag + 1).
Num(c) == IF Sign(c) = 1 THEN 0 - Mag(c) ELSE Mag(c)

\* The float of integer n (exact, overflow goes to infinity); zs is the sign
\* an exact zero result takes.
Round(n, zs) ==
    IF n = 0 THEN Mk(zs, 0)
    ELSE IF n > MaxMag THEN PInf
    ELSE IF n < 0 - MaxMag THEN NInf
    ELSE IF n < 0 THEN Mk(1, 0 - n) ELSE Mk(0, n)

\* The float literal of a (small) integer.
F(n) == Round(n, 0)

Xor(s, t) == IF s = t THEN 0 ELSE 1

\* a < b, a == b on floats (false when either is NaN; -0 == +0).
flt(a, b) == ~IsNaN(a) /\ ~IsNaN(b) /\ Num(a) < Num(b)
feq(a, b) == ~IsNaN(a) /\ ~IsNaN(b) /\ Num(a) = Num(b)
fle(a, b) == ~IsNaN(a) /\ ~IsNaN(b) /\ Num(a) <= Num(b)

fneg(a) == Mk(1 - Sign(a), Mag(a))

fabs(a) == Mk(0, Mag(a))

fadd(a, b) ==
    IF IsNaN(a) THEN a
    ELSE IF IsNaN(b) THEN b
    ELSE IF IsInf(a) THEN (IF IsInf(b) /\ Sign(a) # Sign(b) THEN QNaN ELSE a)
    ELSE IF IsInf(b) THEN b
    ELSE Round(Num(a) + Num(b), IF Sign(a) = 1 /\ Sign(b) = 1 THEN 1 ELSE 0)

fsub(a, b) ==
    IF IsNaN(a) THEN a
    ELSE IF IsNaN(b) THEN b
    ELSE fadd(a, fneg(b))

fmul(a, b) ==
    IF IsNaN(a) THEN a
    ELSE IF IsNaN(b) THEN b
    ELSE IF (IsInf(a) /\ IsZero(b)) \/ (IsZero(a) /\ IsInf(b)) THEN QNaN
    ELSE IF IsInf(a) \/ IsInf(b) THEN Mk(Xor(Sign(a), Sign(b)), InfMag)
    ELSE IF Mag(a) * Mag(b) > MaxMag THEN Mk(Xor(Sign(a), Sign(b)), InfMag)
    ELSE Mk(Xor(Sign(a), Sign(b)), Mag(a) * Mag(b))

\* p / q for naturals p, q > 0, rounded to nearest, ties to even.
DivNearest(p, q) ==
    LET d == p \div q
        r == p % q
    IN  IF 2 * r > q \/ (2 * r = q /\ d % 2 = 1) THEN d + 1 ELSE d

fdiv(a, b) ==
    IF IsNaN(a) THEN a
    ELSE IF IsNaN(b) THEN b
    ELSE IF (IsInf(a) /\ IsInf(b)) \/ (IsZero(a) /\ IsZero(b)) THEN QNaN
    ELSE IF IsInf(a) \/ IsZero(b) THEN Mk(Xor(Sign(a), Sign(b)), InfMag)
    ELSE IF IsInf(b) THEN Mk(Xor(Sign(a), Sign(b)), 0)
    ELSE Mk(Xor(Sign(a), Sign(b)), DivNearest(Mag(a), Mag(b)))

\* Largest r with r * r <= n.
RECURSIVE ISqrtFrom(_, _)
ISqrtFrom(n, r) == IF (r + 1) * (r + 1) > n THEN r ELSE ISqrtFrom(n, r + 1)

\* The square root of natural n rounded to nearest.
SqrtNearest(n) ==
    LET r == ISqrtFrom(n, 0)
    IN  IF n - r * r > r THEN r + 1 ELSE r

fsqrt(a) ==
    IF IsNaN(a) \/ IsZero(a) THEN a
    ELSE IF Sign(a) = 1 THEN QNaN
    ELSE IF IsInf(a) THEN a
    ELSE Mk(0, SqrtNearest(Mag(a)))

\* C fmin / fmax: a NaN operand is treated as missing data.
c_fmin(a, b) ==
    IF fle(a, b) THEN a
    ELSE IF flt(b, a) THEN b
    ELSE IF IsNaN(b) THEN a ELSE b

c_fmax(a, b) ==
    IF fle(b, a) THEN a
    ELSE IF flt(a, b) THEN b
    ELSE IF IsNaN(b) THEN a ELSE b

\* std::fmod: the remainder of a / b with the sign of a.
c_fmod(a, b) ==
    IF IsNaN(a) THEN a
    ELSE IF IsNaN(b) THEN b
    ELSE IF IsInf(a) \/ IsZero(b) THEN QNaN
    ELSE IF IsInf(b) THEN a
    ELSE Mk(Sign(a), Mag(a) % Mag(b))

\* Bitwise operations on the bit patterns.
RECURSIVE BitAnd(_, _)
BitAnd(x, y) ==
    IF x = 0 \/ y = 0 THEN 0
    ELSE (x % 2) * (y % 2) + 2 * BitAnd(x \div 2, y \div 2)

BitNot(x) == (2 * SignMask - 1) - x

\* AVX lane operations.
mm_add(a, b) == fadd(a, b)
mm_sub(a, b) == fsub(a, b)
mm_mul(a, b) == fmul(a, b)
mm_div(a, b) == fdiv(a, b)
mm_sqrt(a) == fsqrt(a)
\* MINPS / MAXPS return the second operand unless the first compares
\* strictly below / above it (so also for NaNs and for two zeros).
mm_min(a, b) == IF flt(a, b) THEN a ELSE b
mm_max(a, b) == IF flt(b, a) THEN a ELSE b
\* ANDNPS: (NOT a) AND b.
mm_andnot(a, b) == BitAnd(BitNot(a), b)
\* _mm256_cmp_ps(a, b, CMP_LT_OQ): the lane mask, as a boolean.
mm_cmp_lt(a, b) == flt(a, b)
\* A blend with the two sources exchanged.
mm_blendv_exchanged(a, b, mask) == IF mask THEN a ELSE b

\* _mm256_blendv_ps(a, b, mask): b where the mask is set, else a.
mm_blendv(a, b, mask) == IF mask THEN b ELSE a

\* ------------------------------------------------------------------------
\* Opcodes
\* ------------------------------------------------------------------------

Nullary == {"VAR_X", "VAR_Y", "VAR_Z", "CONST"}
Unary == {"SQUARE", "SQRT", "NEG", "ABS"}
Binary == {"ADD", "MUL", "MIN", "MAX", "SUB", "DIV", "MOD", "NANFILL"}
Dummies == {"DUMMY_A", "DUMMY_B"}

\* The opcodes the AVX kernel computes with vector instructions.
AvxOps == {"ADD", "MUL", "MIN", "MAX", "SUB", "DIV",
           "SQUARE", "SQRT", "NEG", "ABS", "DUMMY_A", "DUMMY_B"}

\* ------------------------------------------------------------------------
\* Scalar kernels
\* ------------------------------------------------------------------------

\* The result of a kernel whose loop never exits.
Spin == 0 - 1

\* while (out[i] < 0) out[i] += b[i];
RECURSIVE ModLoop(_, _)
ModLoop(out, b) ==
    IF ~flt(out, PZero) THEN out
    ELSE LET n == fadd(out, b)
         IN  IF n = out THEN Spin ELSE ModLoop(n, b)

\* One lane of the scalar value kernel.
clause_f(op, a, b) ==
    CASE op = "ADD" -> fadd(a, b)
      [] op = "MUL" -> fmul(a, b)
      [] op = "MIN" -> c_fmin(a, b)
      [] op = "MAX" -> c_fmax(a, b)
      [] op = "SUB" -> fsub(a, b)
      [] op = "DIV" -> fdiv(a, b)
      [] op = "MOD" -> ModLoop(c_fmod(a, b), b)
      [] op = "NANFILL" -> IF IsNaN(a) THEN b ELSE a
      [] op = "SQUARE" -> fmul(a, a)
      [] op = "SQRT" -> fsqrt(a)
      [] op = "NEG" -> fneg(a)
      [] op = "ABS" -> fabs(a)
      [] op = "DUMMY_A" -> a
      [] op = "DUMMY_B" -> b

\* One component (dx, dy or dz) of one lane of the scalar derivative
\* kernel: av, bv are the operand values, ad, bd the operands' derivative
\* component and ov the value the value kernel wrote.
clause_d1(op, av, ad, bv, bd, ov) ==
    CASE op = "ADD" -> fadd(ad, bd)
      [] op = "MUL" -> fadd(fmul(av, bd), fmul(ad, bv))
      [] op = "MIN" -> IF flt(av, bv) THEN ad ELSE bd
      [] op = "MAX" -> IF flt(av, bv) THEN bd ELSE ad
      [] op = "SUB" -> fsub(ad, bd)
      [] op = "DIV" -> fdiv(fsub(fmul(bv, ad), fmul(av, bd)), fmul(bv, bv))
      [] op = "MOD" -> ad
      [] op = "NANFILL" -> IF IsNaN(av) THEN bd ELSE ad
      [] op = "SQUARE" -> fmul(fmul(F(2), av), ad)
      [] op = "SQRT" -> IF flt(av, PZero) THEN PZero
                        ELSE fdiv(ad, fmul(F(2), ov))
      [] op = "NEG" -> fneg(ad)
      [] op = "ABS" -> IF flt(av, PZero) THEN fneg(ad) ELSE ad
      [] op = "DUMMY_A" -> ad
      [] op = "DUMMY_B" -> bd

\* A clause result: value f and gradient d = <<dx, dy, dz>>.
Res(f, d) == [f |-> f, d |-> d]

\* One lane of the scalar derivative kernel; f = Spin when the value
\* kernel never returns.
clause_d(op, A, B) ==
    LET ov == clause_f(op, A.f, B.f)
    IN  IF ov = Spin THEN Res(Spin, A.d)
        ELSE Res(ov, [k \in 1..3 |-> clause_d1(op, A.f, A.d[k], B.f, B.d[k], ov)])

\* ------------------------------------------------------------------------
\* AVX kernels
\* ------------------------------------------------------------------------

\* One lane of the AVX value kernel.
clause_mf(op, a, b) ==
    CASE op = "ADD" -> mm_add(a, b)
      [] op = "MUL" -> mm_mul(a, b)
      [] op = "MIN" -> mm_min(a, b)
      [] op = "MAX" -> mm_max(a, b)
      [] op = "SUB" -> mm_sub(a, b)
      [] op = "DIV" -> mm_div(a, b)
      [] op = "SQUARE" -> mm_mul(a, a)
      [] op = "SQRT" -> mm_sqrt(a)
      [] op = "NEG" -> mm_sub(PZero, a)
      [] op = "ABS" -> mm_andnot(a, NZero)
      [] op = "DUMMY_A" -> a
      [] op = "DUMMY_B" -> b
      [] op \in {"MOD", "NANFILL"} -> clause_f(op, a, b)

\* One component of one lane of the AVX derivative kernel.
clause_md1(op, av, ad, bv, bd, ov) ==
    CASE op = "ADD" -> mm_add(ad, bd)
      [] op = "MUL" -> mm_add(mm_mul(av, bd), mm_mul(ad, bv))
      [] op = "MIN" -> mm_blendv(bd, ad, mm_cmp_lt(av, bv))
      [] op = "MAX" -> mm_blendv(ad, bd, mm_cmp_lt(av, bv))
      [] op = "SUB" -> mm_sub(ad, bd)
      [] op = "DIV" -> mm_div(mm_sub(mm_mul(bv, ad), mm_mul(av, bd)),
                              mm_mul(bv, bv))
      [] op = "SQUARE" -> mm_mul(F(2), mm_mul(av, ad))
      [] op = "SQRT" -> mm_blendv(mm_div(ad, mm_mul(ov, F(2))), PZero,
                                  mm_cmp_lt(av, PZero))
      [] op = "NEG" -> mm_sub(PZero, ad)
      [] op = "ABS" -> mm_blendv(ad, mm_sub(PZero, ad), mm_cmp_lt(av, PZero))
      [] op = "DUMMY_A" -> ad
      [] op = "DUMMY_B" -> bd
      [] op \in {"MOD", "NANFILL"} -> clause_d1(op, av, ad, bv, bd, ov)

\* One lane of the AVX derivative kernel.
clause_md(op, A, B) ==
    LET ov == clause_mf(op, A.f, B.f)
    IN  IF ov = Spin THEN Res(Spin, A.d)
        ELSE Res(ov, [k \in 1..3 |-> clause_md1(op, A.f, A.d[k], B.f, B.d[k], ov)])

\* ------------------------------------------------------------------------
\* Interval kernel (boost::numeric::interval over float)
\* ------------------------------------------------------------------------

Iv(lo, hi) == <<lo, hi>>
Lower(i) == i[1]
Upper(i) == i[2]

\* Interval(): the default-constructed interval.
DefaultInterval == Iv(PZero, PZero)
EmptyInterval == Iv(QNaN, QNaN)
\* Interval(lo, hi): bounds that are not ordered give the NaN interval.
MkInterval(lo, hi) == IF fle(lo, hi) THEN Iv(lo, hi) ELSE EmptyInterval

NumMin(a, b) == IF Num(a) <= Num(b) THEN a ELSE b
NumMax(a, b) == IF Num(a) >= Num(b) THEN a ELSE b

i_add(a, b) == Iv(fadd(Lower(a), Lower(b)), fadd(Upper(a), Upper(b)))
i_sub(a, b) == Iv(fsub(Lower(a), Upper(b)), fsub(Upper(a), Lower(b)))
i_neg(a) == Iv(fneg(Upper(a)), fneg(Lower(a)))
i_mul(a, b) ==
    LET p1 == fmul(Lower(a), Lower(b))
        p2 == fmul(Lower(a), Upper(b))
        p3 == fmul(Upper(a), Lower(b))
        p4 == fmul(Upper(a), Upper(b))
    IN  Iv(NumMin(NumMin(p1, p2), NumMin(p3, p4)),
           NumMax(NumMax(p1, p2), NumMax(p3, p4)))
i_min(a, b) == Iv(NumMin(Lower(a), Lower(b)), NumMin(Upper(a), Upper(b)))
i_max(a, b) == Iv(NumMax(Lower(a), Lower(b)), NumMax(Upper(a), Upper(b)))
i_abs(a) ==
    IF fle(PZero, Lower(a)) THEN a
    ELSE IF fle(Upper(a), PZero) THEN i_neg(a)
    ELSE Iv(PZero, NumMax(fneg(Lower(a)), Upper(a)))
i_square(a) ==
    IF fle(PZero, Lower(a))
        THEN Iv(fmul(Lower(a), Lower(a)), fmul(Upper(a), Upper(a)))
    ELSE IF fle(Upper(a), PZero)
        THEN Iv(fmul(Upper(a), Upper(a)), fmul(Lower(a), Lower(a)))
    ELSE Iv(PZero, NumMax(fmul(Lower(a), Lower(a)), fmul(Upper(a), Upper(a))))
\* Square roots rounded down and up.
SqrtDown(a) == IF IsInf(a) THEN a ELSE Mk(0, ISqrtFrom(Mag(a), 0))
SqrtUp(a) ==
    IF IsInf(a) THEN a
    ELSE LET r == ISqrtFrom(Mag(a), 0)
         IN  IF r * r < Mag(a) THEN Round(r + 1, 0) ELSE Mk(0, r)
i_sqrt(a) ==
    IF IsNaN(Lower(a)) \/ IsNaN(Upper(a)) \/ flt(Upper(a), PZero)
        THEN EmptyInterval
    ELSE Iv(IF fle(Lower(a), PZero) THEN PZero ELSE SqrtDown(Lower(a)),
            SqrtUp(Upper(a)))

\* (int) of a float exponent, as boost::numeric::pow(a, b.lower()) and
\* nth_root(a, b.lower()) receive it (the floats of the format are whole).
ToInt(c) == Num(c)

\* x^n by repeated multiplication, n >= 0.
RECURSIVE fpow(_, _)
fpow(x, n) == IF n = 0 THEN F(1) ELSE fmul(x, fpow(x, n - 1))

\* 1 / c rounded down and up.
InvDown(c) ==
    IF IsInf(c) THEN Mk(Sign(c), 0)
    ELSE IF Num(c) > 0 THEN (IF Num(c) = 1 THEN F(1) ELSE PZero)
    ELSE F(0 - 1)
InvUp(c) ==
    IF IsInf(c) THEN Mk(Sign(c), 0)
    ELSE IF Num(c) > 0 THEN F(1)
    ELSE IF Num(c) = 0 - 1 THEN F(0 - 1) ELSE NZero

\* boost::numeric::interval_lib::multiplicative_inverse
i_inverse(a) ==
    IF IsNaN(Lower(a)) \/ IsNaN(Upper(a)) THEN EmptyInterval
    ELSE IF fle(Lower(a), PZero) /\ fle(PZero, Upper(a))
        THEN IF ~IsZero(Lower(a))
                 THEN IF ~IsZero(Upper(a)) THEN Iv(NInf, PInf)
                      ELSE Iv(NInf, InvUp(Lower(a)))
             ELSE IF ~IsZero(Upper(a)) THEN Iv(InvDown(Upper(a)), PInf)
             ELSE EmptyInterval
    ELSE Iv(InvDown(Upper(a)), InvUp(Lower(a)))

\* boost::numeric::pow(a, n)
RECURSIVE i_pow(_, _)
i_pow(a, n) ==
    IF IsNaN(Lower(a)) \/ IsNaN(Upper(a)) THEN EmptyInterval
    ELSE IF n = 0
        THEN IF IsZero(Lower(a)) /\ IsZero(Upper(a)) THEN EmptyInterval
             ELSE Iv(F(1), F(1))
    ELSE IF n < 0 THEN i_inverse(i_pow(a, 0 - n))
    ELSE IF flt(Upper(a), PZero)
        THEN LET yl == fpow(fneg(Upper(a)), n)
                 yu == fpow(fneg(Lower(a)), n)
             IN  IF n % 2 = 1 THEN Iv(fneg(yu), fneg(yl)) ELSE Iv(yl, yu)
    ELSE IF flt(Lower(a), PZero)
        THEN IF n % 2 = 1
                 THEN Iv(fneg(fpow(fneg(Lower(a)), n)), fpow(Upper(a), n))
             ELSE Iv(PZero, fpow(NumMax(fneg(Lower(a)), Upper(a)), n))
    ELSE Iv(fpow(Lower(a), n), fpow(Upper(a), n))

RECURSIVE IPow(_, _)
IPow(r, k) == IF k = 0 THEN 1 ELSE r * IPow(r, k - 1)

\* The k-th root of a float c >= 0 rounded down and up.
RootDown(c, k) ==
    IF IsInf(c) THEN c
    ELSE Mk(0, CHOOSE r \in 0..Mag(c) :
                  IPow(r, k) <= Mag(c) /\ IPow(r + 1, k) > Mag(c))
RootUp(c, k) ==
    IF IsInf(c) THEN c
    ELSE Mk(0, CHOOSE r \in 0..Mag(c) :
                  IPow(r, k) >= Mag(c) /\ (r = 0 \/ IPow(r - 1, k) < Mag(c)))

\* boost::numeric::nth_root(a, k), which takes k > 0.
i_nth_root(a, k) ==
    IF IsNaN(Lower(a)) \/ IsNaN(Upper(a)) \/ k <= 0 THEN EmptyInterval
    ELSE IF k = 1 THEN a
    ELSE IF ~flt(PZero, Upper(a))
        THEN IF IsZero(Upper(a))
                 THEN IF k % 2 = 0 \/ IsZero(Lower(a)) THEN Iv(PZero, PZero)
                      ELSE Iv(fneg(RootUp(fneg(Lower(a)), k)), PZero)
             ELSE IF k % 2 = 0 THEN EmptyInterval
             ELSE Iv(fneg(RootUp(fneg(Lower(a)), k)),
                     fneg(RootDown(fneg(Upper(a)), k)))
    ELSE IF ~flt(PZero, Lower(a))
        THEN IF k % 2 = 0 \/ IsZero(Lower(a)) THEN Iv(PZero, RootUp(Upper(a), k))
             ELSE Iv(fneg(RootUp(fneg(Lower(a)), k)), RootUp(Upper(a), k))
    ELSE Iv(RootDown(Lower(a), k), RootUp(Upper(a), k))

\* The interval kernel.
clause_i(op, a, b) ==
    CASE op = "ADD" -> i_add(a, b)
      [] op = "MUL" -> i_mul(a, b)
      [] op = "MIN" -> i_min(a, b)
      [] op = "MAX" -> i_max(a, b)
      [] op = "SUB" -> i_sub(a, b)
      [] op = "POW" -> i_pow(a, ToInt(Lower(b)))
      [] op = "NTH_ROOT" -> i_nth_root(a, ToInt(Lower(b)))
      [] op = "MOD" -> MkInterval(PZero, Upper(b))
      [] op = "NANFILL" ->
            IF IsNaN(Lower(a)) \/ IsNaN(Upper(a)) THEN b ELSE a
      [] op = "SQUARE" -> i_square(a)
      [] op = "SQRT" -> i_sqrt(a)
      [] op = "NEG" -> i_neg(a)
      [] op = "ABS" -> i_abs(a)
      [] op = "DUMMY_A" -> a
      [] op = "DUMMY_B" -> b

\* float * Interval and Interval + float, as used by set(Interval...).
i_scale(k, a) == i_mul(Iv(k, k), a)
i_shift(a, k) == i_add(a, Iv(k, k))

\* ------------------------------------------------------------------------
\* Transform matrices (glm::mat4, column-major: m[c + 1][r + 1] is M[c][r])
\* ------------------------------------------------------------------------

Identity == << <<1, 0, 0, 0>>, <<0, 1, 0, 0>>, <<0, 0, 1, 0>>, <<0, 0, 0, 1>> >>
\* Rotation by 90 degrees about Z, and its inverse.
RotZ == << <<0, 1, 0, 0>>, <<0 - 1, 0, 0, 0>>, <<0, 0, 1, 0>>, <<0, 0, 0, 1>> >>
RotZInv == << <<0, 0 - 1, 0, 0>>, <<1, 0, 0, 0>>, <<0, 0, 1, 0>>, <<0, 0, 0, 1>> >>
\* Point reflection.
Mirror == << <<0 - 1, 0, 0, 0>>, <<0, 0 - 1, 0, 0>>, <<0, 0, 0 - 1, 0>>,
             <<0, 0, 0, 1>> >>
\* Translation by +1 / -1 along X.
Shift == << <<1, 0, 0, 0>>, <<0, 1, 0, 0>>, <<0, 0, 1, 0>>, <<1, 0, 0, 1>> >>
ShiftInv == << <<1, 0, 0, 0>>, <<0, 1, 0, 0>>, <<0, 0, 1, 0>>, <<0 - 1, 0, 0, 1>> >>

Matrices == {Identity, RotZ, RotZInv, Mirror, Shift, ShiftInv}

MatMul(m, n) ==
    [c \in 1..4 |-> [r \in 1..4 |->
        m[1][r] * n[c][1] + m[2][r] * n[c][2]
      + m[3][r] * n[c][3] + m[4][r] * n[c][4]]]

\* glm::inverse(M)
Inverse(m) == CHOOSE n \in Matrices : MatMul(m, n) = Identity

\* Row r (0..2) of M * vec4(x, y, z, w) in float arithmetic.
MatVecRow(m, r, x, y, z, w) ==
    fadd(fadd(fmul(F(m[1][r + 1]), x), fmul(F(m[2][r + 1]), y)),
         fadd(fmul(F(m[3][r + 1]), z), fmul(F(m[4][r + 1]), w)))

\* ------------------------------------------------------------------------
\* Cache nodes and trees
\* ------------------------------------------------------------------------

Node(id, op, value, lhs, rhs) ==
    [id |-> id, op |-> op, value |-> value, lhs |-> lhs, rhs |-> rhs]

\* The three variable nodes every cache holds (ids 1, 2, 3).
VarNodes ==
    << Node(1, "VAR_X", QNaN, 0, 0), Node(2, "VAR_Y", QNaN, 0, 0),
       Node(3, "VAR_Z", QNaN, 0, 0) >>

\* A cache: its nodes in the iteration order of cache->data.left (constants,
\* then variables, then operations by ascending rank), and the ids X(), Y()
\* and Z() return.
MkCache(consts, ops) ==
    [nodes |-> consts \o VarNodes \o ops, X |-> 1, Y |-> 2, Z |-> 3]

\* min(x - 1, -y)
CacheMin ==
    MkCache(<< Node(4, "CONST", F(1), 0, 0) >>,
            << Node(5, "SUB", QNaN, 1, 4), Node(6, "NEG", QNaN, 2, 0),
               Node(7, "MIN", QNaN, 5, 6) >>)
\* min(x + 1, max(-x, -y))
CacheNested ==
    MkCache(<< Node(4, "CONST", F(1), 0, 0) >>,
            << Node(5, "NEG", QNaN, 1, 0), Node(6, "NEG", QNaN, 2, 0),
               Node(7, "ADD", QNaN, 1, 4), Node(8, "MAX", QNaN, 5, 6),
               Node(9, "MIN", QNaN, 7, 8) >>)
\* min(-(x + y), square(x + y)), in a cache that also holds x * z
CacheShared ==
    MkCache(<< >>,
            << Node(4, "ADD", QNaN, 1, 2), Node(8, "MUL", QNaN, 1, 3),
               Node(5, "NEG", QNaN, 4, 0), Node(6, "SQUARE", QNaN, 4, 0),
               Node(7, "MIN", QNaN, 5, 6) >>)
\* mod(x, y)
CacheMod == MkCache(<< >>, << Node(4, "MOD", QNaN, 1, 2) >>)
\* x
CacheX == MkCache(<< >>, << >>)
\* 2
CacheConst == MkCache(<< Node(4, "CONST", F(2), 0, 0) >>, << >>)
\* sqrt(square(x) + square(y) + square(z))
CacheSphere ==
    MkCache(<< >>,
            << Node(4, "SQUARE", QNaN, 1, 0), Node(5, "SQUARE", QNaN, 2, 0),
               Node(6, "SQUARE", QNaN, 3, 0), Node(7, "ADD", QNaN, 4, 5),
               Node(8, "ADD", QNaN, 6, 7), Node(9, "SQRT", QNaN, 8, 0) >>)

CacheOf(t) ==
    CASE t = "min" -> CacheMin
      [] t = "nested" -> CacheNested
      [] t = "shared" -> CacheShared
      [] t = "mod" -> CacheMod
      [] t = "x" -> CacheX
      [] t = "const" -> CacheConst
      [] t = "sphere" -> CacheSphere

RootOf(t) ==
    CASE t = "min" -> 7
      [] t = "nested" -> 9
      [] t = "shared" -> 7
      [] t = "mod" -> 4
      [] t = "x" -> 1
      [] t = "const" -> 4
      [] t = "sphere" -> 9

NodeById(cache, id) ==
    cache.nodes[CHOOSE i \in 1..Len(cache.nodes) : cache.nodes[i].id = id]

Max2(a, b) == IF a >= b THEN a ELSE b

\* The rank the cache assigns: 0 for leaves, else 1 + max over operands.
RECURSIVE Rank(_, _)
Rank(cache, id) ==
    IF id = 0 THEN 0 - 1
    ELSE LET n == NodeById(cache, id)
         IN  IF n.op \in Nullary THEN 0
             ELSE 1 + Max2(Rank(cache, n.lhs), Rank(cache, n.rhs))

\* cache->findConnected(id): the ids reachable from id.
RECURSIVE findConnected(_, _)
findConnected(cache, id) ==
    IF id = 0 THEN {}
    ELSE LET n == NodeById(cache, id)
         IN  {id} \cup findConnected(cache, n.lhs) \cup findConnected(cache, n.rhs)

\* ------------------------------------------------------------------------
\* Evaluator::Evaluator: the clause tape and its rows
\* ------------------------------------------------------------------------

\* newClause(t): emplace the clause of node t at the end of the tape (ptr++);
\* at maps node ids to tape positions (0 is nullptr) and ids lists the node
\* ids in the order their clauses were emplaced.
\* What stands in the tape for an operand whose lookup threw.
OutOfRange == 0 - 1

\* clauses.at(id): the position of the clause emplaced for node id;
\* std::out_of_range when there is none.
ClauseAt(at, id) == IF id \in DOMAIN at THEN at[id] ELSE OutOfRange

\* A newClause that passes nullptr for both operands.
newClause_unlinked(acc, cache, t) ==
    LET n == NodeById(cache, t)
        c == [op |-> n.op, value |-> n.value, a |-> 0, b |-> 0]
    IN  [acc EXCEPT !.tape = Append(@, c),
                    !.ids = Append(@, t),
                    !.at = (t :> (Len(acc.tape) + 1)) @@ @]

newClause(acc, cache, t) ==
    LET n == NodeById(cache, t)
        c == [op |-> n.op, value |-> n.value,
              a |-> ClauseAt(acc.at, n.lhs), b |-> ClauseAt(acc.at, n.rhs)]
    IN  [acc EXCEPT !.tape = Append(@, c),
                    !.ids = Append(@, t),
                    !.at = (t :> (Len(acc.tape) + 1)) @@ @]

\* while (rank > rows.size()) rows.push_back(Row());
RECURSIVE GrowRows(_, _)
GrowRows(rws, rank) ==
    IF rank > Len(rws) THEN GrowRows(Append(rws, << >>), rank) ELSE rws

\* A scan that emplaces the connected variable nodes as it does constants.
RECURSIVE ScanCache_keeps_variables(_, _, _, _)
ScanCache_keeps_variables(cache, connected, i, acc) ==
    IF i > Len(cache.nodes) THEN acc
    ELSE LET m == cache.nodes[i]
             rank == Rank(cache, m.id)
         IN  IF m.id \notin connected
                 THEN ScanCache_keeps_variables(cache, connected, i + 1, acc)
             ELSE IF m.op \in Nullary
                 THEN ScanCache_keeps_variables(cache, connected, i + 1,
                                                newClause(acc, cache, m.id))
             ELSE LET acc1 == newClause(acc, cache, m.id)
                      rws == GrowRows(acc.rows, rank)
                      acc2 == [acc1 EXCEPT !.rows =
                                 [rws EXCEPT ![rank] = Append(@, Len(acc1.tape))]]
                  IN  ScanCache_keeps_variables(cache, connected, i + 1, acc2)

\* The scan of cache->data.left from entry i on.
RECURSIVE ScanCache(_, _, _, _)
ScanCache(cache, connected, i, acc) ==
    IF i > Len(cache.nodes) THEN acc
    ELSE LET m == cache.nodes[i]
             rank == Rank(cache, m.id)
         IN  IF m.id \notin connected THEN ScanCache(cache, connected, i + 1, acc)
             ELSE IF m.op = "CONST"
                 THEN ScanCache(cache, connected, i + 1, newClause(acc, cache, m.id))
             ELSE IF rank > 0
                 THEN LET acc1 == newClause(acc, cache, m.id)
                          rws == GrowRows(acc.rows, rank)
                          acc2 == [acc1 EXCEPT !.rows =
                                     [rws EXCEPT ![rank] = Append(@, Len(acc1.tape))]]
                      IN  ScanCache(cache, connected, i + 1, acc2)
             ELSE ScanCache(cache, connected, i + 1, acc)

\* The evaluator built for tree t: tape (clauses by position), rows (tape
\* positions by rank), the positions of X, Y, Z and of the root, the number
\* of clause slots allocated, the connected ids and the ids emplaced.
Build(t) ==
    LET cache == CacheOf(t)
        connected == findConnected(cache, RootOf(t))
        acc0 == [tape |-> << >>, ids |-> << >>, at |-> (0 :> 0), rows |-> << >>]
        accX == newClause(acc0, cache, cache.X)
        accY == newClause(accX, cache, cache.Y)
        accZ == newClause(accY, cache, cache.Z)
        acc == ScanCache(cache, connected, 1, accZ)
    IN  [tape |-> acc.tape, rows |-> acc.rows, root |-> acc.at[RootOf(t)],
         X |-> accX.at[cache.X], Y |-> accY.at[cache.Y], Z |-> accZ.at[cache.Z],
         count |-> 3 + Cardinality(connected),
         connected |-> connected, ids |-> acc.ids]

\* Clause::Clause: the result buffers are filled with the node's value (NaN
\* unless CONST), the gradient with zero, and the clause starts enabled.
InitF(ev) == [c \in 1..Len(ev.tape) |-> ev.tape[c].value]
InitI(ev) == [c \in 1..Len(ev.tape) |-> Iv(ev.tape[c].value, ev.tape[c].value)]
\* result.deriv(1, 0, 0) etc. on X, Y, Z.
InitD(ev) ==
    [c \in 1..Len(ev.tape) |->
        IF c = ev.X THEN <<F(1), F(0), F(0)>>
        ELSE IF c = ev.Y THEN <<F(0), F(1), F(0)>>
        ELSE IF c = ev.Z THEN <<F(0), F(0), F(1)>>
        ELSE <<F(0), F(0), F(0)>>]
InitDisabled(ev) == [c \in 1..Len(ev.tape) |-> FALSE]
\* Row::setSize: active = size().
setSize(row) == Len(row)
\* A constructor that never calls row.setSize().
InitActive_without_setSize(ev) == [r \in 1..Len(ev.rows) |-> 0]

InitActive(ev) == [r \in 1..Len(ev.rows) |-> setSize(ev.rows[r])]
InitStack(ev) == [r \in 1..Len(ev.rows) |-> << >>]

\* ------------------------------------------------------------------------
\* Evaluation
\* ------------------------------------------------------------------------

\* getOpcode naming the disabled operand instead of the live one.
getOpcode_named_disabled(T, dis, c) ==
    IF T[c].a # 0 /\ dis[T[c].a] THEN "DUMMY_A"
    ELSE IF T[c].b # 0 /\ dis[T[c].b] THEN "DUMMY_B"
    ELSE T[c].op

\* Evaluator::getOpcode
getOpcode(T, dis, c) ==
    IF T[c].a # 0 /\ dis[T[c].a] THEN "DUMMY_B"
    ELSE IF T[c].b # 0 /\ dis[T[c].b] THEN "DUMMY_A"
    ELSE T[c].op

\* The clauses the evaluation loops visit, in order: for each row, the
\* positions below its active count.
RECURSIVE ActiveOrder(_, _, _)
ActiveOrder(rws, act, r) ==
    IF r > Len(rws) THEN << >>
    ELSE SubSeq(rws[r], 1, act[r]) \o ActiveOrder(rws, act, r + 1)

\* What a kernel reads through a null operand pointer.
NullF == QNaN
NullD == <<QNaN, QNaN, QNaN>>

OpF(f, c) == IF c = 0 THEN NullF ELSE f[c]
OpD(d, c) == IF c = 0 THEN NullD ELSE d[c]
OpI(i, c) == IF c = 0 THEN DefaultInterval ELSE i[c]

\* The loop of Evaluator::values over the clauses ord; a kernel that never
\* returns leaves Spin in its clause and ends the walk.
RECURSIVE ValuesLoop(_, _, _, _, _)
ValuesLoop(T, dis, ord, f, vectorize) ==
    IF ord = << >> THEN f
    ELSE LET c == Head(ord)
             op == getOpcode(T, dis, c)
             v == IF vectorize THEN clause_mf(op, OpF(f, T[c].a), OpF(f, T[c].b))
                  ELSE clause_f(op, OpF(f, T[c].a), OpF(f, T[c].b))
         IN  IF v = Spin THEN [f EXCEPT ![c] = Spin]
             ELSE ValuesLoop(T, dis, Tail(ord), [f EXCEPT ![c] = v], vectorize)

\* Some kernel of the walk that wrote f never returned.
Spinning(f) == \E c \in DOMAIN f : f[c] = Spin

\* The loop of Evaluator::derivs; fd is [f, d].
RECURSIVE DerivsLoop(_, _, _, _, _)
DerivsLoop(T, dis, ord, fd, vectorize) ==
    IF ord = << >> THEN fd
    ELSE LET c == Head(ord)
             op == getOpcode(T, dis, c)
             A == Res(OpF(fd.f, T[c].a), OpD(fd.d, T[c].a))
             B == Res(OpF(fd.f, T[c].b), OpD(fd.d, T[c].b))
             o == IF vectorize THEN clause_md(op, A, B) ELSE clause_d(op, A, B)
         IN  IF o.f = Spin THEN [fd EXCEPT !.f[c] = Spin]
             ELSE DerivsLoop(T, dis, Tail(ord),
                             [f |-> [fd.f EXCEPT ![c] = o.f],
                              d |-> [fd.d EXCEPT ![c] = o.d]], vectorize)

\* The loop of Evaluator::interval.
RECURSIVE IntervalLoop(_, _, _, _)
IntervalLoop(T, dis, ord, i) ==
    IF ord = << >> THEN i
    ELSE LET c == Head(ord)
             op == getOpcode(T, dis, c)
         IN  IntervalLoop(T, dis, Tail(ord),
                 [i EXCEPT ![c] = clause_i(op, OpI(i, T[c].a), OpI(i, T[c].b))])

\* Evaluator::set(x, y, z, index): the point, transformed by M, goes to the
\* value buffers of X, Y and Z.
setPoint(xyz, m, f, p) ==
    [f EXCEPT ![xyz[1]] = MatVecRow(m, 0, F(p[1]), F(p[2]), F(p[3]), F(1)),
              ![xyz[2]] = MatVecRow(m, 1, F(p[1]), F(p[2]), F(p[3]), F(1)),
              ![xyz[3]] = MatVecRow(m, 2, F(p[1]), F(p[2]), F(p[3]), F(1))]

\* M[0][r] * x + M[1][r] * y + M[2][r] * z + M[3][r] on intervals.
SetRow(m, r, x, y, z) ==
    i_shift(i_add(i_add(i_scale(F(m[1][r + 1]), x), i_scale(F(m[2][r + 1]), y)),
                  i_scale(F(m[3][r + 1]), z)), F(m[4][r + 1]))

\* The interval of a box side given by integer endpoints.
BoxIv(s) == Iv(F(s[1]), F(s[2]))

\* set(Interval...) taking Y from the matrix row of X.
setInterval_y_from_x_row(xyz, m, i, bx) ==
    [i EXCEPT ![xyz[1]] = SetRow(m, 0, BoxIv(bx[1]), BoxIv(bx[2]), BoxIv(bx[3])),
              ![xyz[2]] = SetRow(m, 0, BoxIv(bx[1]), BoxIv(bx[2]), BoxIv(bx[3])),
              ![xyz[3]] = SetRow(m, 2, BoxIv(bx[1]), BoxIv(bx[2]), BoxIv(bx[3]))]

\* Evaluator::set(Interval x, Interval y, Interval z)
setInterval(xyz, m, i, bx) ==
    [i EXCEPT ![xyz[1]] = SetRow(m, 0, BoxIv(bx[1]), BoxIv(bx[2]), BoxIv(bx[3])),
              ![xyz[2]] = SetRow(m, 1, BoxIv(bx[1]), BoxIv(bx[2]), BoxIv(bx[3])),
              ![xyz[3]] = SetRow(m, 2, BoxIv(bx[1]), BoxIv(bx[2]), BoxIv(bx[3]))]

\* ------------------------------------------------------------------------
\* Pruning: push and pop
\* ------------------------------------------------------------------------

\* Which operand of clause c the last interval evaluation shows to be
\* irrelevant.
Classify(T, i, c) ==
    LET a == OpI(i, T[c].a)
        b == OpI(i, T[c].b)
    IN  IF T[c].op = "MIN"
            THEN IF flt(Upper(a), Lower(b)) THEN "IGNORE_B"
                 ELSE IF flt(Upper(b), Lower(a)) THEN "IGNORE_A"
                 ELSE "NONE"
        ELSE IF T[c].op = "MAX"
            THEN IF flt(Upper(b), Lower(a)) THEN "IGNORE_B"
                 ELSE IF flt(Upper(a), Lower(b)) THEN "IGNORE_A"
                 ELSE "NONE"
        ELSE "NONE"

\* The operands of c that stay live.
Live(T, i, c) ==
    LET k == Classify(T, i, c)
    IN  (CASE k = "NONE" -> {T[c].a, T[c].b}
           [] k = "IGNORE_B" -> {T[c].a}
           [] k = "IGNORE_A" -> {T[c].b}) \ {0}

\* Row::push on row r: every enabled clause among the active ones enables its
\* live operands; the row is permuted so that the enabled clauses come first,
\* the previous active count is saved and active becomes their number.
\* e is [rows, active, stack, disabled].
RowPush(T, i, e, r) ==
    LET act == SubSeq(e.rows[r], 1, e.active[r])
        rest == SubSeq(e.rows[r], e.active[r] + 1, Len(e.rows[r]))
        on(c) == ~e.disabled[c]
        off(c) == e.disabled[c]
        live == UNION {Live(T, i, act[k]) : k \in {j \in 1..Len(act) : on(act[j])}}
        kept == SelectSeq(act, on)
    IN  [rows |-> [e.rows EXCEPT ![r] = kept \o SelectSeq(act, off) \o rest],
         active |-> [e.active EXCEPT ![r] = Len(kept)],
         stack |-> [e.stack EXCEPT ![r] = Append(@, e.active[r])],
         disabled |-> [c \in DOMAIN e.disabled |->
                          IF c \in live THEN FALSE ELSE e.disabled[c]]]

\* A walk that stops after the row of highest rank.
RowsPushFrom_top_row_only(T, i, e, r) ==
    IF r = 0 THEN e ELSE RowPush(T, i, e, r)

\* for (auto itr = rows.rbegin(); itr != rows.rend(); ++itr) itr->push();
RECURSIVE RowsPushFrom(_, _, _, _)
RowsPushFrom(T, i, e, r) ==
    IF r = 0 THEN e ELSE RowsPushFrom(T, i, RowPush(T, i, e, r), r - 1)

\* push() without its first loop: no clause is marked before the walk.
DisableActive_skipped(e) == e.disabled

\* row[i]->disable() for every i < row.active of every row.
DisableActive(e) ==
    [c \in DOMAIN e.disabled |->
        IF \E r \in 1..Len(e.rows) : \E k \in 1..e.active[r] : e.rows[r][k] = c
            THEN TRUE ELSE e.disabled[c]]

\* push() that leaves the root as disabled as the rest.
EnableRoot_skipped(dis, root) == dis

\* root->enable()
EnableRoot(dis, root) == [dis EXCEPT ![root] = FALSE]

\* Evaluator::push
EvaluatorPush(T, root, i, e) ==
    LET e1 == [e EXCEPT !.disabled = EnableRoot(DisableActive(e), root)]
    IN  RowsPushFrom(T, i, e1, Len(e.rows))

\* Row::pop on row r: the saved active count comes back and the clauses it
\* brings back are enabled again.
RowPop(e, r) ==
    LET saved == e.stack[r][Len(e.stack[r])]
        back == {e.rows[r][k] : k \in (e.active[r] + 1)..saved}
    IN  [rows |-> e.rows,
         active |-> [e.active EXCEPT ![r] = saved],
         stack |-> [e.stack EXCEPT ![r] = SubSeq(@, 1, Len(@) - 1)],
         disabled |-> [c \in DOMAIN e.disabled |->
                          IF c \in back THEN FALSE ELSE e.disabled[c]]]

\* for (auto& row : rows) row.pop();  from row r on.
RECURSIVE RowsPopFrom(_, _)
RowsPopFrom(e, r) ==
    IF r > Len(e.rows) THEN e ELSE RowsPopFrom(RowPop(e, r), r + 1)

\* pop() leaving the first row as it is.
EvaluatorPop_from_second_row(e) == RowsPopFrom(e, 2)

\* Evaluator::pop
EvaluatorPop(e) == RowsPopFrom(e, 1)

\* Row::pop on a row whose stack is empty raises UnbalancedStack; the first
\* row is the one that would raise it.
PopRaises(e) == Len(e.rows) > 0 /\ e.stack[1] = << >>

\* ------------------------------------------------------------------------
\* Diagnostics
\* ------------------------------------------------------------------------

RECURSIVE SumTo(_, _)
SumTo(f, n) == IF n = 0 THEN 0 ELSE f[n] + SumTo(f, n - 1)

\* Evaluator::utilization: total += r.size(), active += r.active over the
\* rows, then active / total.  The quotient is kept as the pair of its
\* numerator and denominator (0 / 0 when there are no rows).
utilization(rws, act) ==
    [num |-> SumTo(act, Len(rws)),
     den |-> SumTo([r \in 1..Len(rws) |-> Len(rws[r])], Len(rws))]

\* ------------------------------------------------------------------------
\* State
\* ------------------------------------------------------------------------

\* Deepest nesting of push() the model explores.
MaxDepth == 2

VARIABLES
    tree,       \* the tree the evaluator was built from
    M,          \* the transform matrix given to the constructor
    Mi,         \* its inverse
    tape,       \* tape[c]: op, value and operands a, b of the clause at c
    xyz,        \* the tape positions of the clauses X, Y and Z
    root,       \* the tape position of the root clause
    rows,       \* rows[r]: the tape positions of the clauses of rank r
    active,     \* active[r]: Row::active
    stack,      \* stack[r]: the active counts row r saved, oldest first
    disabled,   \* disabled[c]: Clause::disabled
    ri,         \* ri[c]: result.i
    rf,         \* rf[c]: result.f[0]
    rd,         \* rd[c]: <<result.dx[0], result.dy[0], result.dz[0]>>
    spin,       \* a kernel loop never returned
    depth,      \* pushes not yet popped
    frames,     \* per open push: the box last evaluated, whether the push
                \* followed the protocol, the pruning state before it
    curBox,     \* the box of the last eval(Interval...), << >> before it
    ivFresh,    \* eval(Interval...) was called since the last push / pop
    call,       \* the last values / derivs call: kind, point, vectorize
                \* flag and what it returned
    evalFresh,  \* that call was made since the last push / pop
    lastPop,    \* how the last push / pop call went
    err,        \* the error it raised, or "none"
    kin,        \* kernel harness: opcode, operands and mode of the run
    kout,       \* kernel harness: what the kernel wrote
    window_thread_init, \* libao: the init callback is set (non-null)
    initialized,        \* libao: the set of thread ids that ran it
    wpc,        \* wpc[t]: where thread t stands in the libao function it runs
    raced,      \* threads whose access of initialized in progress overlaps
                \* an access of another thread, one of the two a write
    hist,       \* hist[t]: the init and callback invocations made on t
    cacheGen,   \* the number of Cache::reset() calls so far
    shown,      \* cache generations of the trees the window holds
    batch,      \* chunk arithmetic: the batch size and the chunk counts
    render,     \* tree_render_mesh: the mesh, the buffer and the loop position
    heap        \* tree_render_slice / contours_delete: the blocks and their fate

evalVars == <<tree, M, Mi, tape, xyz, root, rows, active, stack, disabled, ri, rf,
              rd, spin, depth, frames, curBox, ivFresh, call, evalFresh, lastPop,
              err, kin, kout>>
bindVars == <<window_thread_init, initialized, wpc, raced, hist, cacheGen, shown>>
ffiVars == <<render, heap>>
vars == <<evalVars, bindVars, batch, ffiVars>>

\* The pruning state as one record.
E == [rows |-> rows, active |-> active, stack |-> stack, disabled |-> disabled]

\* What pop() is to restore: the active counts and the disabled flags.
Snap == [active |-> active, disabled |-> disabled]

Order == ActiveOrder(rows, active, 1)

Inside(p, bx) == \A k \in 1..3 : bx[k][1] <= p[k] /\ p[k] <= bx[k][2]
SubBox(b2, b1) == \A k \in 1..3 : b1[k][1] <= b2[k][1] /\ b2[k][2] <= b1[k][2]

\* Inputs of the pruning specification: boxes (per axis <<lower, upper>>)
\* and points.
BoxPos == << <<0, 1>>, <<0, 1>>, <<0, 0>> >>
BoxCorner == << <<1, 1>>, <<0, 0>>, <<0, 0>> >>
BoxDiag == << <<1, 1>>, <<1, 1>>, <<0, 0>> >>
Boxes == {BoxPos, BoxCorner, BoxDiag}
Points == {<<0, 0, 0>>, <<1, 0, 0>>, <<1, 1, 0>>}
PruneTrees == {"min", "nested", "shared", "x"}

\* Inputs of the evaluation specification.
EvalBoxes ==
    { << <<0, 1>>, <<0, 0>>, <<0, 0>> >>,
      << <<0 - 1, 1>>, <<1, 1>>, <<0, 0>> >>,
      << <<1, 1>>, <<0 - 2, 0 - 2>>, <<0, 0>> >> }
EvalPoints ==
    {<<0, 0, 0>>, <<1, 0, 0>>, <<0 - 1, 1, 0>>, <<1, 0 - 2, 0>>, <<0 - 1, 0 - 2, 0>>}
EvalTrees == {"mod", "x", "const", "sphere", "min"}
EvalMatrices == {Identity, Mirror, Shift}

NoCall == [kind |-> "none"]

KernelIdle ==
    /\ kin = [kind |-> "none"]
    /\ kout = [done |-> FALSE]

\* The threads of the binding: the one that sets the program up and the
\* threads on which script watchers deliver their callbacks.
MainThread == "main"
Watchers == {"w1", "w2"}
Threads == Watchers \cup {MainThread}

\* libao at program start: no init callback, nothing initialized, an
\* empty window.
BindIdle ==
    /\ window_thread_init = FALSE
    /\ initialized = {}
    /\ wpc = [t \in Threads |-> "idle"]
    /\ raced = {}
    /\ hist = [t \in Threads |-> << >>]
    /\ cacheGen = 0
    /\ shown = {}

\* No batch call made yet.
BatchIdle == batch = [n |-> 0, chunks |-> << >>]

\* No tree_render_mesh or tree_render_slice call made yet.
FfiIdle ==
    /\ render = [pc |-> "idle"]
    /\ heap = [pc |-> "idle"]

\* The state Evaluator::Evaluator leaves for tree t and transform m.
Constructed(t, m) ==
    /\ tree = t
    /\ M = m
    /\ Mi = Inverse(m)
    /\ \E ev \in {Build(t)} :
           /\ tape = ev.tape
           /\ xyz = <<ev.X, ev.Y, ev.Z>>
           /\ root = ev.root
           /\ rows = ev.rows
           /\ active = InitActive(ev)
           /\ stack = InitStack(ev)
           /\ disabled = InitDisabled(ev)
           /\ ri = InitI(ev)
           /\ rf = InitF(ev)
           /\ rd = InitD(ev)
    /\ spin = FALSE
    /\ depth = 0
    /\ frames = << >>
    /\ curBox = << >>
    /\ ivFresh = FALSE
    /\ call = NoCall
    /\ evalFresh = FALSE
    /\ lastPop = "none"
    /\ err = "none"

Init ==
    /\ \E t \in PruneTrees : Constructed(t, Identity)
    /\ KernelIdle
    /\ BindIdle
    /\ BatchIdle
    /\ FfiIdle

InitEval ==
    /\ \E t \in EvalTrees, m \in EvalMatrices : Constructed(t, m)
    /\ KernelIdle
    /\ BindIdle
    /\ BatchIdle
    /\ FfiIdle

\* ------------------------------------------------------------------------
\* Operations
\* ------------------------------------------------------------------------

\* Interval Evaluator::eval(Interval x, Interval y, Interval z)
EvalInterval(bx) ==
    /\ ~spin
    /\ depth < MaxDepth
    /\ ri' = IntervalLoop(tape, disabled, Order, setInterval(xyz, M, ri, bx))
    /\ curBox' = bx
    /\ ivFresh' = TRUE
    /\ UNCHANGED <<bindVars, batch, ffiVars,
                   tree, M, Mi, tape, xyz, root, rows, active, stack, disabled, rf,
                   rd, spin, depth, frames, call, evalFresh, lastPop, err,
                   kin, kout>>

\* float Evaluator::eval(float x, float y, float z): set, then values(1).
Eval(p, vectorize) ==
    /\ ~spin
    /\ rf' = ValuesLoop(tape, disabled, Order, setPoint(xyz, M, rf, p), vectorize)
    /\ spin' = Spinning(rf')
    /\ call' = [kind |-> "values", point |-> p, vect |-> vectorize,
                f |-> rf'[root]]
    /\ evalFresh' = TRUE
    /\ UNCHANGED <<bindVars, batch, ffiVars,
                   tree, M, Mi, tape, xyz, root, rows, active, stack, disabled, ri,
                   rd, depth, frames, curBox, ivFresh, lastPop, err, kin, kout>>

\* Mi * vec4(d, 1) - Mi * vec4(0, 0, 0, 1), the gradient derivs hands back.
InverseTransform(mi, d) ==
    [k \in 1..3 |->
        fsub(MatVecRow(mi, k - 1, d[1], d[2], d[3], F(1)),
             MatVecRow(mi, k - 1, F(0), F(0), F(0), F(1)))]

\* set, then Evaluator::derivs(1, vectorize): the walk, then the inverse
\* transform written back into the root's gradient buffers.
Derivs(p, vectorize) ==
    /\ ~spin
    /\ \E fd \in {DerivsLoop(tape, disabled, Order,
                             [f |-> setPoint(xyz, M, rf, p), d |-> rd], vectorize)} :
           /\ rf' = fd.f
           /\ spin' = Spinning(fd.f)
           /\ rd' = IF Spinning(fd.f) THEN fd.d
                    ELSE [fd.d EXCEPT ![root] = InverseTransform(Mi, @)]
    /\ call' = [kind |-> "derivs", point |-> p, vect |-> vectorize,
                f |-> rf'[root], d |-> rd'[root]]
    /\ evalFresh' = TRUE
    /\ UNCHANGED <<bindVars, batch, ffiVars,
                   tree, M, Mi, tape, xyz, root, rows, active, stack, disabled, ri,
                   depth, frames, curBox, ivFresh, lastPop, err, kin, kout>>

\* Whether every open push followed the protocol: eval(Interval...) at the
\* depth of the push, on a box inside the box of the enclosing push.
FramesOk == \A k \in 1..Len(frames) : frames[k].ok
NextOk ==
    /\ ivFresh
    /\ FramesOk
    /\ depth > 0 => SubBox(curBox, frames[depth].box)

\* void Evaluator::push()
Push ==
    /\ ~spin
    /\ depth < MaxDepth
    /\ \E e \in {EvaluatorPush(tape, root, ri, E)} :
           /\ rows' = e.rows
           /\ active' = e.active
           /\ stack' = e.stack
           /\ disabled' = e.disabled
    /\ depth' = depth + 1
    /\ frames' = Append(frames, [box |-> curBox, ok |-> NextOk, snap |-> Snap])
    /\ ivFresh' = FALSE
    /\ evalFresh' = FALSE
    /\ lastPop' = "push"
    /\ err' = "none"
    /\ UNCHANGED <<bindVars, batch, ffiVars,
                   tree, M, Mi, tape, xyz, root, ri, rf, rd, spin, curBox, call,
                   kin, kout>>

\* The open pushes left when the innermost one is closed: a push that broke
\* the protocol may have touched what the enclosing one relies on.
FramesAfterPop ==
    IF depth >= 2 /\ ~frames[depth].ok
        THEN [SubSeq(frames, 1, depth - 1) EXCEPT ![depth - 1].ok = FALSE]
    ELSE SubSeq(frames, 1, depth - 1)

\* void Evaluator::pop()
Pop ==
    /\ ~spin
    /\ IF PopRaises(E)
           THEN /\ err' = "UnbalancedStack"
                /\ UNCHANGED <<rows, active, stack, disabled, depth, frames>>
           ELSE /\ \E e \in {EvaluatorPop(E)} :
                       /\ rows' = e.rows
                       /\ active' = e.active
                       /\ stack' = e.stack
                       /\ disabled' = e.disabled
                /\ err' = "none"
                /\ IF depth > 0
                       THEN /\ depth' = depth - 1
                            /\ frames' = FramesAfterPop
                       ELSE UNCHANGED <<depth, frames>>
    /\ lastPop' = IF depth = 0 THEN "pop0" ELSE "pop"
    /\ ivFresh' = FALSE
    /\ evalFresh' = FALSE
    /\ UNCHANGED <<bindVars, batch, ffiVars,
                   tree, M, Mi, tape, xyz, root, ri, rf, rd, spin, curBox, call,
                   kin, kout>>

Next ==
    \/ \E bx \in Boxes : EvalInterval(bx)
    \/ \E p \in Points, v \in BOOLEAN : Eval(p, v)
    \/ Push
    \/ Pop

Spec == Init /\ [][Next]_vars

\* Evaluation without pruning, under every transform.
NextEval ==
    \/ \E bx \in EvalBoxes : EvalInterval(bx)
    \/ \E p \in EvalPoints, v \in BOOLEAN : Eval(p, v)
    \/ \E p \in EvalPoints, v \in BOOLEAN : Derivs(p, v)

SpecEval == InitEval /\ [][NextEval]_vars

\* One clause, one lane: the kernels run on operand buffers holding the
\* inputs drawn at the start.
KernelFloats == {PZero, NZero, F(1), F(0 - 1), F(2), PInf, QNaN}
KernelGradsA == {<<F(1), F(0), F(0)>>, <<F(0), F(0), F(0)>>}
KernelGradsB == {<<F(0), F(1), F(0)>>}
KernelOps == Unary \cup Binary \cup Dummies
KernelIntervals ==
    {Iv(F(1), F(2)), Iv(F(0 - 2), F(0 - 1)), Iv(F(0 - 1), F(2)), Iv(F(0), F(0)),
     Iv(F(4), F(9))}
PowExponents == {Iv(F(2), F(2)), Iv(F(3), F(3)), Iv(F(0), F(2)), Iv(F(2), F(3)),
                 Iv(F(0 - 1), F(1))}
RootExponents == {Iv(F(2), F(2)), Iv(F(3), F(3)), Iv(F(1), F(2)), Iv(F(2), F(3))}
KernelInputs ==
    [kind : {"values"}, op : KernelOps, a : KernelFloats, b : KernelFloats,
     vect : BOOLEAN]
    \cup
    [kind : {"derivs"}, op : KernelOps, a : KernelFloats, b : KernelFloats,
     ad : KernelGradsA, bd : KernelGradsB, vect : BOOLEAN]
    \cup
    [kind : {"interval"}, op : {"POW"}, a : KernelIntervals, b : PowExponents]
    \cup
    [kind : {"interval"}, op : {"NTH_ROOT"}, a : KernelIntervals, b : RootExponents]

InitKernel ==
    /\ Constructed("const", Identity)
    /\ kin \in KernelInputs
    /\ kout = [done |-> FALSE]
    /\ BindIdle
    /\ BatchIdle
    /\ FfiIdle

\* clause(op, a, b, out, 1) as values() calls it, scalar or AVX.
KernelValues ==
    /\ kin.kind = "values"
    /\ ~kout.done
    /\ kout' = [done |-> TRUE,
                f |-> IF kin.vect THEN clause_mf(kin.op, kin.a, kin.b)
                      ELSE clause_f(kin.op, kin.a, kin.b)]
    /\ UNCHANGED <<bindVars, batch, ffiVars,
                   tree, M, Mi, tape, xyz, root, rows, active, stack, disabled,
                   ri, rf, rd, spin, depth, frames, curBox, ivFresh, call,
                   evalFresh, lastPop, err, kin>>

\* clause(op, av, adx.., bv, bdx.., ov, odx.., 1) as derivs() calls it.
KernelDerivs ==
    /\ kin.kind = "derivs"
    /\ ~kout.done
    /\ \E o \in {IF kin.vect
                     THEN clause_md(kin.op, Res(kin.a, kin.ad), Res(kin.b, kin.bd))
                     ELSE clause_d(kin.op, Res(kin.a, kin.ad), Res(kin.b, kin.bd))} :
           kout' = [done |-> TRUE, f |-> o.f, d |-> o.d]
    /\ UNCHANGED <<bindVars, batch, ffiVars,
                   tree, M, Mi, tape, xyz, root, rows, active, stack, disabled,
                   ri, rf, rd, spin, depth, frames, curBox, ivFresh, call,
                   evalFresh, lastPop, err, kin>>

\* clause(op, a, b) on intervals as interval() calls it; the kernel has no
\* path that raises.
KernelInterval ==
    /\ kin.kind = "interval"
    /\ ~kout.done
    /\ kout' = [done |-> TRUE, i |-> clause_i(kin.op, kin.a, kin.b), err |-> "none"]
    /\ UNCHANGED <<bindVars, batch, ffiVars,
                   tree, M, Mi, tape, xyz, root, rows, active, stack, disabled,
                   ri, rf, rd, spin, depth, frames, curBox, ivFresh, call,
                   evalFresh, lastPop, err, kin>>

NextKernel == KernelValues \/ KernelDerivs \/ KernelInterval

SpecKernel == InitKernel /\ [][NextKernel]_vars

\* ------------------------------------------------------------------------
\* The binding: watcher callbacks (libao.cpp)
\* ------------------------------------------------------------------------

\* Callbacks each watcher thread delivers in the model.
MaxCallbacks == 2

\* An access of the std::set initialized is in progress on thread t.
Accessing(t) == wpc[t] \in {"count", "insert"}

\* The threads whose access in progress conflicts with an access of kind k
\* that t begins: std::set allows concurrent reads only.
Conflicts(t, k) ==
    {u \in Threads \ {t} : Accessing(u) /\ (k = "insert" \/ wpc[u] = "insert")}

BeginAccess(t, k) ==
    raced' = IF Conflicts(t, k) = {} THEN raced
             ELSE raced \cup {t} \cup Conflicts(t, k)

Calls(t) == Cardinality({k \in 1..Len(hist[t]) : hist[t][k] # "init"})

\* window_watch_callback_ is entered on watcher thread w and evaluates
\* window_thread_init && ...: a null pointer skips the lookup.
WatchEnter(w) ==
    /\ wpc[w] = "idle"
    /\ Calls(w) < MaxCallbacks
    /\ IF window_thread_init
           THEN wpc' = [wpc EXCEPT ![w] = "count"] /\ BeginAccess(w, "count")
           ELSE wpc' = [wpc EXCEPT ![w] = "callback0"] /\ UNCHANGED raced
    /\ UNCHANGED <<window_thread_init, initialized, hist, cacheGen, shown>>
    /\ UNCHANGED <<evalVars, batch, ffiVars>>

\* initialized.count(id) == 0 returns; a lookup that overlapped an insert
\* of another thread may return either answer.
WatchCount(w) ==
    /\ wpc[w] = "count"
    /\ \E found \in (IF w \in raced THEN BOOLEAN ELSE {w \in initialized}) :
           wpc' = [wpc EXCEPT ![w] = IF found THEN "callback" ELSE "init"]
    /\ raced' = raced \ {w}
    /\ UNCHANGED <<window_thread_init, initialized, hist, cacheGen, shown>>
    /\ UNCHANGED <<evalVars, batch, ffiVars>>

\* window_thread_init() runs on w, and initialized.insert(id) begins.
WatchInit(w) ==
    /\ wpc[w] = "init"
    /\ hist' = [hist EXCEPT ![w] = Append(@, "init")]
    /\ wpc' = [wpc EXCEPT ![w] = "insert"]
    /\ BeginAccess(w, "insert")
    /\ UNCHANGED <<window_thread_init, initialized, cacheGen, shown>>
    /\ UNCHANGED <<evalVars, batch, ffiVars>>

\* What initialized.insert(id) on thread t can leave: an insert that
\* overlapped another access may leave the set without the id.
InsertOutcomes(t) ==
    IF t \in raced THEN {initialized \cup {t}, initialized}
    ELSE {initialized \cup {t}}

\* initialized.insert(id) returns on w.
WatchInsert(w) ==
    /\ wpc[w] = "insert"
    /\ initialized' \in InsertOutcomes(w)
    /\ raced' = raced \ {w}
    /\ wpc' = [wpc EXCEPT ![w] = "callback"]
    /\ UNCHANGED <<window_thread_init, hist, cacheGen, shown>>
    /\ UNCHANGED <<evalVars, batch, ffiVars>>

\* window_watch_callback(s.c_str()): the script runs and may register a
\* tree, built in the current cache, with window_show_tree; the Frame made
\* for it owns the tree from then on.
WatchCallback(w, show) ==
    /\ wpc[w] \in {"callback", "callback0"}
    /\ hist' = [hist EXCEPT ![w] = Append(@, IF wpc[w] = "callback" THEN "call"
                                              ELSE "call0")]
    /\ shown' = IF show THEN shown \cup {cacheGen} ELSE shown
    /\ wpc' = [wpc EXCEPT ![w] = "reset"]
    /\ UNCHANGED <<window_thread_init, initialized, raced, cacheGen>>
    /\ UNCHANGED <<evalVars, batch, ffiVars>>

\* Cache::reset() at the end of window_watch_callback_.
WatchReset(w) ==
    /\ wpc[w] = "reset"
    /\ cacheGen' = cacheGen + 1
    /\ wpc' = [wpc EXCEPT ![w] = "idle"]
    /\ UNCHANGED <<window_thread_init, initialized, raced, hist, shown>>
    /\ UNCHANGED <<evalVars, batch, ffiVars>>

\* window_set_thread_init(init) on the main thread: the pointer is set,
\* init() runs there, and initialized.insert(id) begins.
SetThreadInit ==
    /\ wpc[MainThread] = "idle"
    /\ window_thread_init' = TRUE
    /\ hist' = [hist EXCEPT ![MainThread] = Append(@, "init")]
    /\ wpc' = [wpc EXCEPT ![MainThread] = "insert"]
    /\ BeginAccess(MainThread, "insert")
    /\ UNCHANGED <<initialized, cacheGen, shown>>
    /\ UNCHANGED <<evalVars, batch, ffiVars>>

\* initialized.insert(id) returns in window_set_thread_init.
SetThreadInitInsert ==
    /\ wpc[MainThread] = "insert"
    /\ initialized' \in InsertOutcomes(MainThread)
    /\ raced' = raced \ {MainThread}
    /\ wpc' = [wpc EXCEPT ![MainThread] = "done"]
    /\ UNCHANGED <<window_thread_init, hist, cacheGen, shown>>
    /\ UNCHANGED <<evalVars, batch, ffiVars>>

\* window_clear_frames(): the window drops the trees it holds.
ClearFrames ==
    /\ wpc[MainThread] \in {"idle", "done"}
    /\ shown # {}
    /\ shown' = {}
    /\ UNCHANGED <<window_thread_init, initialized, wpc, raced, hist, cacheGen>>
    /\ UNCHANGED <<evalVars, batch, ffiVars>>

InitWatch ==
    /\ Constructed("const", Identity)
    /\ KernelIdle
    /\ BindIdle
    /\ BatchIdle
    /\ FfiIdle

NextWatch ==
    \/ \E w \in Watchers : WatchEnter(w)
    \/ \E w \in Watchers : WatchCount(w)
    \/ \E w \in Watchers : WatchInit(w)
    \/ \E w \in Watchers : WatchInsert(w)
    \/ \E w \in Watchers, show \in BOOLEAN : WatchCallback(w, show)
    \/ \E w \in Watchers : WatchReset(w)
    \/ SetThreadInit
    \/ SetThreadInitInsert
    \/ ClearFrames

SpecWatch == InitWatch /\ [][NextWatch]_vars

\* ------------------------------------------------------------------------
\* Batch sizes: the 8-lane chunk counts (size_t arithmetic)
\* ------------------------------------------------------------------------

\* Bits of the unsigned word the model gives size_t.
WordBits == 8
Word == 2 ^ WordBits

\* a + b and a - b on size_t.
UAdd(a, b) == (a + b) % Word
USub(a, b) == (a - b + Word) % Word

\* count = (count - 1)/8 + 1 in values(count, true) and derivs(count, true).
vectorChunks(count) == UAdd(USub(count, 1) \div 8, 1)

\* (count + 7) / 8, the loop bound of applyTransform.
transformChunks(count) == UAdd(count, 7) \div 8

\* values(n, true) computes its chunk count.
ValuesChunks ==
    /\ "values" \notin DOMAIN batch.chunks
    /\ batch' = [batch EXCEPT !.chunks = ("values" :> vectorChunks(batch.n)) @@ @]
    /\ UNCHANGED <<evalVars, bindVars, ffiVars>>

\* derivs(n, true) computes its chunk count.
DerivsChunks ==
    /\ "derivs" \notin DOMAIN batch.chunks
    /\ batch' = [batch EXCEPT !.chunks = ("derivs" :> vectorChunks(batch.n)) @@ @]
    /\ UNCHANGED <<evalVars, bindVars, ffiVars>>

\* applyTransform(n) computes its loop bound.
TransformChunks ==
    /\ "applyTransform" \notin DOMAIN batch.chunks
    /\ batch' = [batch EXCEPT !.chunks =
                    ("applyTransform" :> transformChunks(batch.n)) @@ @]
    /\ UNCHANGED <<evalVars, bindVars, ffiVars>>

InitChunks ==
    /\ Constructed("const", Identity)
    /\ KernelIdle
    /\ BindIdle
    /\ batch \in [n : 0..(Word - 1), chunks : {<< >>}]
    /\ FfiIdle

NextChunks == ValuesChunks \/ DerivsChunks \/ TransformChunks

SpecChunks == InitChunks /\ [][NextChunks]_vars

\* ------------------------------------------------------------------------
\* ------------------------------------------------------------------------
\* The binding: tree_render_mesh (libao.cpp)
\* ------------------------------------------------------------------------

MaxTris == 2

\* What Mesh::Render hands back: vertices <<x, y, z>> and triangles, each
\* three indices (from 0) into the vertices.
MeshVerts == << <<1, 2, 3>>, <<4, 5, 6>>, <<7, 8, 9>> >>
MeshTriangles == {<<0, 1, 2>>, <<2, 0, 1>>}
SeqsUpTo(S, n) == UNION {[1..k -> S] : k \in 0..n}
Meshes == [verts : {MeshVerts}, tris : SeqsUpTo(MeshTriangles, MaxTris)]

\* out is the address of one float* of the caller. What the memory after
\* that pointer holds is not the function's to know: it may be unmapped,
\* hold pointers to memory outside the buffer, hold copies of the buffer's
\* address, or hold the addresses of the buffer's successive floats.
Beyond == {"unmapped", "elsewhere", "buffer", "cells"}

\* A store that indexes the buffer instead: (*out)[index].
Target_into_buffer(r, index) == <<"buf", index>>

\* Where *out[index] lands: out[index] is the index-th float* counted from
\* out, and the store goes to the float it points at. out[0] is *out, the
\* buffer, so the first store goes to float 0 of the buffer.
Target(r, index) ==
    IF index = 0 THEN <<"buf", 0>>
    ELSE CASE r.beyond = "unmapped" -> <<"fault", index>>
           [] r.beyond = "elsewhere" -> <<"other", index>>
           [] r.beyond = "buffer" -> <<"buf", 0>>
           [] r.beyond = "cells" -> <<"buf", index>>

\* The float the loop stores at its step index: coordinate index % 3 of
\* vertex t[j] of triangle t, the triangles and their vertices in order.
Stored(mesh, index) ==
    mesh.verts[mesh.tris[(index \div 9) + 1][((index % 9) \div 3) + 1] + 1][(index % 3) + 1]

\* Mesh::Render returns and *out = malloc(tris.size() * 3 * 3 * sizeof(float)).
RenderMeshAlloc ==
    /\ render.pc = "idle"
    /\ \E mesh \in Meshes, beyond \in Beyond :
           render' = [pc |-> "loop", mesh |-> mesh, beyond |-> beyond,
                      buf |-> [k \in 0..(9 * Len(mesh.tris) - 1) |-> 0],
                      written |-> {}, other |-> {}, index |-> 0, ret |-> 0]
    /\ UNCHANGED <<evalVars, bindVars, batch, heap>>

\* *out[index++] = v.x (or v.y, v.z).
RenderMeshStore ==
    /\ render.pc = "loop"
    /\ render.index < 9 * Len(render.mesh.tris)
    /\ \E to \in {Target(render, render.index)} :
           render' =
               CASE to[1] = "fault" -> [render EXCEPT !.pc = "fault"]
                 [] to[1] = "other" ->
                       [render EXCEPT !.other = @ \cup {to[2]},
                                      !.index = @ + 1]
                 [] to[1] = "buf" ->
                       [render EXCEPT !.buf[to[2]] = Stored(render.mesh, render.index),
                                      !.written = @ \cup {to[2]},
                                      !.index = @ + 1]
    /\ UNCHANGED <<evalVars, bindVars, batch, heap>>

\* return mesh.tris.size();
RenderMeshReturn ==
    /\ render.pc = "loop"
    /\ render.index = 9 * Len(render.mesh.tris)
    /\ render' = [render EXCEPT !.pc = "done", !.ret = Len(render.mesh.tris)]
    /\ UNCHANGED <<evalVars, bindVars, batch, heap>>

InitMesh ==
    /\ Constructed("const", Identity)
    /\ KernelIdle
    /\ BindIdle
    /\ BatchIdle
    /\ FfiIdle

NextMesh == RenderMeshAlloc \/ RenderMeshStore \/ RenderMeshReturn

SpecMesh == InitMesh /\ [][NextMesh]_vars

\* ------------------------------------------------------------------------
\* The binding: tree_render_slice and contours_delete (libao.cpp)
\* ------------------------------------------------------------------------

MaxContours == 2
MaxPoints == 2

\* What Contours::Render hands back, as far as allocation goes: the number
\* of points c.size() of each contour.
ContourSizes == SeqsUpTo(0..MaxPoints, MaxContours)

\* The blocks of a struct contours: the struct, its three arrays, and the
\* coordinate arrays xs[i], ys[i] (i from 0).
BlockCs == <<"cs", 0>>
BlockXs == <<"xs", 0>>
BlockYs == <<"ys", 0>>
BlockSizes == <<"sizes", 0>>
BlockX(i) == <<"x", i>>
BlockY(i) == <<"y", i>>

\* malloc(bytes) for block b: a fresh block, or, when bytes is 0, possibly
\* NULL. null says which.
Malloc(h, b, null) ==
    IF null THEN [h EXCEPT !.null = @ \cup {b}]
    ELSE [h EXCEPT !.live = @ \cup {b}, !.allocated = @ \cup {b}]

\* Whether malloc of n elements may return NULL: only for n = 0.
MayBeNull(n) == IF n = 0 THEN BOOLEAN ELSE {FALSE}

\* free(p) where p is the pointer to block b: nothing for NULL, else the
\* block is released; releasing a block that is not live is recorded.
Free(h, b) ==
    IF b \in h.null THEN h
    ELSE IF b \in h.live
        THEN [h EXCEPT !.live = @ \ {b}, !.freed = @ \cup {b}]
    ELSE [h EXCEPT !.bad = @ \cup {<<"free", b>>}]

\* A load from block b (cs->size, cs->xs, cs->xs[i], ...); a load from a
\* block that is not live is recorded.
Read(h, b) ==
    IF b \in h.live THEN h ELSE [h EXCEPT !.bad = @ \cup {<<"read", b>>}]

\* free(cs->xs[i]); free(cs->ys[i]);
DeleteContour(h, i) ==
    Free(Read(Read(Free(Read(Read(h, BlockCs), BlockXs), BlockX(i)),
                   BlockCs), BlockYs), BlockY(i))

\* The four frees in the order struct, sizes, xs, ys.
DeleteRest_struct_first(h) ==
    Free(Read(Free(Read(Free(Read(Free(h, BlockCs), BlockCs), BlockSizes),
                        BlockCs), BlockXs), BlockCs), BlockYs)

\* free(cs->sizes); free(cs->xs); free(cs->ys); free(cs);
DeleteRest(h) ==
    Free(Free(Read(Free(Read(Free(Read(h, BlockCs), BlockSizes),
                             BlockCs), BlockXs), BlockCs), BlockYs), BlockCs)

\* tree_render_slice up to its loop: the struct and the three arrays are
\* allocated and out->size is set.
RenderSliceAlloc ==
    /\ heap.pc = "idle"
    /\ \E cs \in ContourSizes :
       \E nx \in MayBeNull(Len(cs)), ny \in MayBeNull(Len(cs)),
          ns \in MayBeNull(Len(cs)) :
           heap' = Malloc(Malloc(Malloc(Malloc(
                       [pc |-> "render", contours |-> cs, size |-> Len(cs),
                        i |-> 0, live |-> {}, allocated |-> {}, freed |-> {},
                        null |-> {}, bad |-> {}],
                       BlockCs, FALSE), BlockXs, nx), BlockYs, ny), BlockSizes, ns)
    /\ UNCHANGED <<evalVars, bindVars, batch, render>>

\* One pass of for (auto c : cs.contours): xs[i] and ys[i] are allocated,
\* the points copied and sizes[i++] set.
RenderSliceContour ==
    /\ heap.pc = "render"
    /\ heap.i < Len(heap.contours)
    /\ \E nx \in MayBeNull(heap.contours[heap.i + 1]),
          ny \in MayBeNull(heap.contours[heap.i + 1]) :
           heap' = [Malloc(Malloc(Read(Read(Read(heap, BlockCs), BlockXs), BlockYs),
                                  BlockX(heap.i), nx), BlockY(heap.i), ny)
                       EXCEPT !.i = @ + 1]
    /\ UNCHANGED <<evalVars, bindVars, batch, render>>

\* return out; the caller holds the struct.
RenderSliceReturn ==
    /\ heap.pc = "render"
    /\ heap.i = Len(heap.contours)
    /\ heap' = [heap EXCEPT !.pc = "held", !.i = 0]
    /\ UNCHANGED <<evalVars, bindVars, batch, render>>

\* contours_delete(cs): one pass of its loop, i < cs->size.
ContoursDeleteLoop ==
    /\ heap.pc \in {"held", "delete"}
    /\ heap.i < heap.size
    /\ heap' = [DeleteContour(heap, heap.i) EXCEPT !.pc = "delete", !.i = @ + 1]
    /\ UNCHANGED <<evalVars, bindVars, batch, render>>

\* contours_delete(cs): the loop ends and the arrays and the struct go.
ContoursDeleteRest ==
    /\ heap.pc \in {"held", "delete"}
    /\ heap.i = heap.size
    /\ heap' = [DeleteRest(Read(heap, BlockCs)) EXCEPT !.pc = "deleted"]
    /\ UNCHANGED <<evalVars, bindVars, batch, render>>

InitSlice ==
    /\ Constructed("const", Identity)
    /\ KernelIdle
    /\ BindIdle
    /\ BatchIdle
    /\ FfiIdle

NextSlice ==
    \/ RenderSliceAlloc
    \/ RenderSliceContour
    \/ RenderSliceReturn
    \/ ContoursDeleteLoop
    \/ ContoursDeleteRest

SpecSlice == InitSlice /\ [][NextSlice]_vars

\* Properties
\* ------------------------------------------------------------------------

\* The root value values(1, vectorize) returns at point p on an evaluator of
\* the same tree on which push() was never called.
FullOrder == ActiveOrder(rows, [r \in 1..Len(rows) |-> Len(rows[r])], 1)
Unpruned(p, vectorize) ==
    ValuesLoop(tape, [c \in DOMAIN tape |-> FALSE], FullOrder,
               setPoint(xyz, M, [c \in DOMAIN tape |-> tape[c].value], p),
               vectorize)[root]

\* Some clause is pruned away.
Pruned == \E r \in 1..Len(rows) : active[r] < Len(rows[r])

Restored(snap) == active' = snap.active /\ disabled' = snap.disabled

\* Every row is fully active again: utilization() is 1.0.
FullyActive(act) == \A r \in 1..Len(rows) : act[r] = Len(rows[r])

Within(v, i) == fle(Lower(i), v) /\ fle(v, Upper(i))

\* eval(Interval...) and eval(float...) have both been called and returned,
\* the point lying in the box.
PointInBox ==
    /\ curBox # << >>
    /\ call.kind = "values"
    /\ ~spin
    /\ Inside(call.point, curBox)

\* Every MOD clause has a divisor whose interval is strictly positive.
ModDivisorsPositive ==
    \A c \in DOMAIN tape : tape[c].op = "MOD" => flt(PZero, Lower(ri[tape[c].b]))

RepeatedCall ==
    /\ call.kind # "none"
    /\ call'.kind = call.kind
    /\ call'.point = call.point
    /\ call'.vect = call.vect
    /\ depth' = depth

\* C5: a values / derivs call that repeats the one before it returns the
\* same value and, for derivs, the same gradient.
C5_CallsRepeatable ==
    [][RepeatedCall =>
          /\ call'.f = call.f
          /\ call.kind = "derivs" => call'.d = call.d]_vars

\* C6: a pop() made at push depth zero is reported as UnbalancedStack.
C6_PopAtDepthZeroRaises ==
    lastPop = "pop0" => err = "UnbalancedStack"

\* C7: every values / derivs / interval call returns: no kernel loop runs
\* for ever.
C7_EveryCallReturns == ~spin

\* The AVX value kernel has run on an opcode it computes with vector
\* instructions.
AvxValuesRan ==
    /\ kout.done
    /\ kin.kind = "values"
    /\ kin.vect
    /\ kin.op \in AvxOps

\* C8: for ADD, MUL, MIN, MAX, SUB, DIV, SQUARE, SQRT, NEG, ABS, DUMMY_A and
\* DUMMY_B the AVX kernel writes the bit pattern the scalar kernel writes.
C8_AvxMatchesScalar ==
    AvxValuesRan => kout.f = clause_f(kin.op, kin.a, kin.b)

\* The derivative kernel has run on a MIN or MAX clause whose operand values
\* are numbers.
MinMaxDerivsRan ==
    /\ kout.done
    /\ kin.kind = "derivs"
    /\ kin.op \in {"MIN", "MAX"}
    /\ ~IsNaN(kin.a) /\ ~IsNaN(kin.b)

\* The operand whose value a MIN / MAX clause selects when the values differ.
Selected ==
    IF kin.op = "MIN" THEN (IF flt(kin.a, kin.b) THEN "a" ELSE "b")
    ELSE (IF flt(kin.a, kin.b) THEN "b" ELSE "a")

GradOf(x) == IF x = "a" THEN kin.ad ELSE kin.bd

\* C9 as stated: the gradient is that of the selected operand, and of
\* operand b when the two values are equal, for MIN and for MAX.
C9_TiesTakeB ==
    MinMaxDerivsRan =>
        kout.d = IF feq(kin.a, kin.b) THEN GradOf("b") ELSE GradOf(Selected)

\* C9 amended: for operand values that are numbers, the gradient is that of
\* the selected operand; when the two values are equal MIN takes the
\* gradient of b and MAX takes the gradient of a, in both kernels.
C9_MinMaxGradient ==
    MinMaxDerivsRan =>
        kout.d = IF feq(kin.a, kin.b)
                     THEN GradOf(IF kin.op = "MIN" THEN "b" ELSE "a")
                 ELSE GradOf(Selected)

\* A MAX clause with equal operand values and different operand gradients,
\* in the AVX kernel.
C9_Witness ==
    /\ MinMaxDerivsRan
    /\ kin.op = "MAX" /\ kin.vect
    /\ feq(kin.a, kin.b) /\ kin.ad # kin.bd
    /\ kout.d = kin.ad

\* derivs has returned for a tree whose root is a SQRT clause, at a point
\* where the operand of the root is not positive.
SqrtAtNonPositive ==
    /\ call.kind = "derivs"
    /\ ~spin
    /\ tape[root].op = "SQRT"
    /\ fle(rf[tape[root].a], PZero)

\* C10: a SQRT clause whose operand value is zero or negative produces the
\* gradient (0, 0, 0), as for sqrt(x^2 + y^2 + z^2) at the origin.
C10_SqrtGradientClamped ==
    SqrtAtNonPositive => \A k \in 1..3 : feq(call.d[k], PZero)

\* Two quotients are the same number.
SameQuotient(p, q) == p.num * q.den = q.num * p.den

RECURSIVE ProductTo(_, _)
ProductTo(f, n) == IF n = 0 THEN 1 ELSE f[n] * ProductTo(f, n - 1)

\* The arithmetic mean over the rows of active[r] / size[r], as a quotient.
MeanActiveOverSize(rws, act) ==
    LET n == Len(rws)
        size == [r \in 1..n |-> Len(rws[r])]
        all == ProductTo(size, n)
    IN  [num |-> SumTo([r \in 1..n |-> act[r] * (all \div size[r])], n),
         den |-> n * all]

\* C11: in every state push() and pop() reach, utilization() is the mean
\* over the rows of active[r] / size[r], each row weighing the same.
C11_UtilizationIsMean ==
    Len(rows) > 0 =>
        SameQuotient(utilization(rows, active), MeanActiveOverSize(rows, active))

\* The interval kernel ran POW or NTH_ROOT with an exponent interval that is
\* not a single number.
NonConstantExponentRan ==
    /\ kout.done
    /\ kin.kind = "interval"
    /\ kin.op \in {"POW", "NTH_ROOT"}
    /\ ~feq(Lower(kin.b), Upper(kin.b))

\* C12: interval evaluation of POW or NTH_ROOT with a non-degenerate
\* exponent interval raises InvalidOperand and does not return the interval
\* computed from the exponent's lower bound.
C12_NonConstantExponentRaises ==
    NonConstantExponentRan =>
        /\ kout.err = "InvalidOperand"
        /\ kout.i # clause_i(kin.op, kin.a, Iv(Lower(kin.b), Lower(kin.b)))

\* The number of times the init callback ran on t before its k-th event.
InitsBefore(t, k) == Cardinality({j \in 1..(k - 1) : hist[t][j] = "init"})

\* C13: every callback a watcher thread delivers while window_thread_init
\* is set is preceded by exactly one run of window_thread_init on that
\* thread: it runs once, before the first such callback, and never again.
C13_ThreadInitOncePerThread ==
    \A w \in Watchers : \A k \in 1..Len(hist[w]) :
        hist[w][k] = "call" => InitsBefore(w, k) = 1

\* Clause c is the root or a live operand, by the intervals push() saw, of a
\* clause that push() left enabled.
NeededAfterPush(c) ==
    \/ c = root
    \/ \E p \in DOMAIN tape : ~disabled'[p] /\ c \in Live(tape, ri, p)

\* The clauses push() visits: those below the active count of their row.
ActiveClauses == {Order[k] : k \in 1..Len(Order)}

EnabledFirst(r) ==
    \A k \in 1..Len(rows[r]) : (k <= active[r]) <=> ~disabled[rows[r][k]]

InRows(c) == \E r \in 1..Len(rows) : \E k \in 1..Len(rows[r]) : rows[r][k] = c
RowOf(c) == CHOOSE r \in 1..Len(rows) : \E k \in 1..Len(rows[r]) : rows[r][k] = c

\* Operand o of clause c is a clause emplaced before c: X, Y, Z, a CONST,
\* or a clause of a lower row.
EmplacedEarlier(o, c) ==
    /\ o \in 1..(c - 1)
    /\ tape[o].op \in Nullary \/ (InRows(o) /\ RowOf(o) < RowOf(c))

\* C16: every operand lookup of the constructor succeeded, and every clause
\* of a row has each operand its opcode takes linked to a clause emplaced
\* earlier in the tape.
C16_OperandsEmplacedEarlier ==
    \A c \in DOMAIN tape :
        /\ tape[c].a # OutOfRange /\ tape[c].b # OutOfRange
        /\ InRows(c) <=> tape[c].op \notin Nullary
        /\ InRows(c) =>
              /\ EmplacedEarlier(tape[c].a, c)
              /\ tape[c].op \in Binary => EmplacedEarlier(tape[c].b, c)
              /\ tape[c].op \in Unary => tape[c].b = 0

\* A tape with a constant and three rows, whose root reads a clause of the
\* first row and one of the second.
C16_Witness ==
    /\ Len(rows) = 3
    /\ RowOf(tape[root].a) = 1
    /\ RowOf(tape[root].b) = 2
    /\ \E c \in DOMAIN tape : tape[c].op = "CONST"

\* The number of 8-lane chunks n elements take.
CeilDiv8(n) == (n + 7) \div 8

\* C17: for every batch size n the chunk counts values, derivs and
\* applyTransform compute are all the ceiling of n / 8.
C17_ChunkCountsAreCeiling ==
    \A k \in DOMAIN batch.chunks : batch.chunks[k] = CeilDiv8(batch.n)

\* C19: Cache::reset() is never executed while the window holds a tree
\* that was registered with window_show_tree and built in the cache being
\* reset.
C19_NoResetWhileTreeLive ==
    [][cacheGen' # cacheGen => cacheGen \notin shown]_vars

\* Operand o (0 when null) is a clause and is disabled.
OperandDisabled(o) == o # 0 /\ disabled[o]

\* The operand the effective opcode of active clause c copies from, when it
\* is DUMMY_A or DUMMY_B, is there and enabled; the operands it reads
\* otherwise are none of them disabled.
ReadsEnabledOperands(c) ==
    LET op == getOpcode(tape, disabled, c)
    IN  /\ ~(OperandDisabled(tape[c].a) /\ OperandDisabled(tape[c].b))
        /\ tape[c].op \in Unary => ~OperandDisabled(tape[c].a)
        /\ op = "DUMMY_A" => tape[c].a # 0 /\ ~disabled[tape[c].a]
        /\ op = "DUMMY_B" => tape[c].b # 0 /\ ~disabled[tape[c].b]
        /\ op \notin Dummies =>
              ~OperandDisabled(tape[c].a) /\ ~OperandDisabled(tape[c].b)

\* C20: in every state eval_interval, push and pop reach, every clause
\* below the active count of its row has an effective opcode that reads
\* only enabled, non-null operands.
C20_ActiveClausesReadEnabled ==
    \A k \in 1..Len(Order) : ReadsEnabledOperands(Order[k])

\* Two pushes deep, an active MIN or MAX runs as DUMMY_A or DUMMY_B over an
\* enabled operand while its other operand is disabled.
C20_Witness ==
    /\ depth = 2
    /\ \E k \in 1..Len(Order) :
           /\ getOpcode(tape, disabled, Order[k]) \in Dummies
           /\ ReadsEnabledOperands(Order[k])

\* How many clauses the constructor emplaced for node id.
TimesEmplaced(ev, id) ==
    Cardinality({k \in 1..Len(ev.ids) : ev.ids[k] = id})

\* C21: the clauses the constructor emplaces never outnumber the
\* count = 3 + |connected| slots it allocated, each placement is one tape
\* slot, and no connected node id is emplaced more than once.
C21_TapeWithinCapacity ==
    \E ev \in {Build(tree)} :
        /\ tape = ev.tape
        /\ Len(ev.ids) = Len(tape)
        /\ Len(tape) <= ev.count
        /\ \A id \in ev.connected : TimesEmplaced(ev, id) <= 1

\* A tree in which no variable occurs: the three variable clauses and the
\* connected nodes fill the allocation to its last slot.
C21_Witness ==
    \E ev \in {Build(tree)} :
        /\ ev.connected \cap {CacheOf(tree).X, CacheOf(tree).Y, CacheOf(tree).Z} = {}
        /\ \E c \in DOMAIN tape : tape[c].op = "CONST"
        /\ Len(tape) = ev.count

\* Threads t and u are both inside an access to initialized and at least
\* one of the two accesses is an insert.
Overlap(t, u) ==
    /\ t # u
    /\ Accessing(t) /\ Accessing(u)
    /\ wpc[t] = "insert" \/ wpc[u] = "insert"

\* C22: no two threads are ever inside initialized.count() / insert() at the
\* same time with at least one of them inside insert().
C22_InitializedAccessesExclusive ==
    \A t \in Threads : \A u \in Threads : ~Overlap(t, u)

\* C23: tree_render_mesh writes the x, y, z of vertex j of triangle i at
\* float 9*i + 3*j + {0, 1, 2} of the one buffer it allocated, writes no
\* other memory, and returns the number of triangles.
C23_MeshBufferFilled ==
    render.pc # "idle" =>
        /\ render.pc # "fault"
        /\ render.other = {}
        /\ render.pc = "done" =>
              /\ render.ret = Len(render.mesh.tris)
              /\ DOMAIN render.buf = 0..(9 * render.ret - 1)
              /\ \A i \in 0..(render.ret - 1) : \A j \in 0..2 : \A k \in 0..2 :
                    /\ (9 * i + 3 * j + k) \in render.written
                    /\ render.buf[9 * i + 3 * j + k] =
                           render.mesh.verts[render.mesh.tris[i + 1][j + 1] + 1][k + 1]

\* C24: contours_delete frees every block tree_render_slice allocated
\* exactly once: while the two run no block is freed that is not live and
\* none is read after it was freed, and when contours_delete returns no
\* block is live and the freed blocks are the allocated ones.
C24_ContoursFreedOnce ==
    heap.pc # "idle" =>
        /\ heap.bad = {}
        /\ heap.live \cap heap.freed = {}
        /\ heap.pc = "deleted" =>
              /\ heap.live = {}
              /\ heap.freed = heap.allocated
              /\ BlockCs \in heap.freed
              /\ \A i \in 0..(heap.size - 1) :
                    /\ heap.contours[i + 1] > 0 => BlockX(i) \in heap.freed
                    /\ heap.contours[i + 1] > 0 => BlockY(i) \in heap.freed

\* A result of two contours, one of them empty, was deleted, and malloc
\* had returned a block for every array.
C24_Witness ==
    /\ heap.pc = "deleted"
    /\ heap.size = 2
    /\ \E i \in 1..2 : heap.contours[i] = 0
    /\ heap.null = {}
    /\ Cardinality(heap.freed) = 8

=============================================================================
